---- MODULE Spec2Model ----
(***************************************************************************)
(* Verification model of the extraction pipeline of fastapi-data-extractor *)
(*                                                                         *)
(*   SpecRegistry  SchemaRegistry (app/services/schema_registry.py) called *)
(*                 by several threads: discover_schemas, get_schema,       *)
(*                 get_available_types, reload_schemas.                    *)
(*   Spec          ExtractionService.process_extraction                    *)
(*                 (app/services/extraction_service.py) from request       *)
(*                 validation to the returned ExtractionResult, with       *)
(*                 FileManager / LocalStorage path construction.           *)
(*   SpecAudio     ContentScraper._process_audio_with_whisper              *)
(*                 (app/core/content_scraper.py) and its temporary file.   *)
(*   SpecAcquire   ContentScraper.fetch_content called directly, without   *)
(*                 the validation of an ExtractionRequest before it.       *)
(*   SpecStorage   StorageFactory.create_storage (app/core/storage) and    *)
(*                 the saves of FileManager (app/core/file_manager.py)     *)
(*                 while the clock runs.                                   *)
(*   SpecYoutube   ContentScraper._process_youtube and the patterns of     *)
(*                 _extract_youtube_id.                                    *)
(*   SpecEndpoints the domain endpoints (app/api/v1/modules), which assign  *)
(*                 the extraction type before process_extraction runs.     *)
(*   SpecJson      save_json of LocalStorage and S3Storage.                *)
(*   SpecLoop      the coroutines of several requests on the event loop of *)
(*                 one worker.                                             *)
(*   SpecUrl       ContentScraper._process_url_async and its browser.      *)
(***************************************************************************)
EXTENDS Integers, Sequences, FiniteSets, TLC

\* ------------------------------------------------------------------------
\* Bounds of the model
\* ------------------------------------------------------------------------
\* number of threads calling the registry concurrently
NumCallers == 2
\* requests handled concurrently by one worker
NumTasks == 2
\* longest output_directory string submitted with a request
MaxDirLen == 2
\* longest content string submitted with a request
MaxContentLen == 2
\* number of saves followed after a storage backend was created
MaxSaves == 2
\* number of seconds the clock is followed for
MaxClock == 1
\* longest youtube_url, in tokens
MaxUrlLen == 5

\* ------------------------------------------------------------------------
\* State
\* ------------------------------------------------------------------------
\* the schema registry (class attributes of SchemaRegistry) and its callers
VARIABLES
    schemas,        \* SchemaRegistry._schemas: extraction type -> schema class
    discovered,     \* SchemaRegistry._discovered
    rpc,            \* per caller: position inside its registry operation
    rop,            \* per caller: the registry operation in progress
    rkey,           \* per caller: the extraction_type argument of get_schema
    ridx,           \* per caller: index of the module the scan loop is at
    rres,           \* per caller: outcome of its last finished operation
    scan_count,     \* history: population passes started since the registry
                    \* was last marked undiscovered
    completed       \* history: the map as the first completed discovery left it

regvars == << schemas, discovered, rpc, rop, rkey, ridx, rres, scan_count, completed >>

\* one request inside ExtractionService.process_extraction
VARIABLES
    ppc,            \* position of the request inside process_extraction
    req,            \* the ExtractionRequest (as submitted, then as validated)
    reject,         \* the fields whose validation failed
    raw,            \* text delivered by the external acquisition call
    content,        \* local variable content
    markdown_path,  \* local variable markdown_path
    extracted_data, \* local variable extracted_data
    exc,            \* the exception in flight, if any
    written,        \* artifacts written to storage during this request
    result,         \* the ExtractionResult returned
    lookup,         \* the error SchemaRegistry.get_schema raised inside the engine, if any
    trace           \* history: the calls made on behalf of the request, in order

pipevars == << ppc, req, reject, raw, content, markdown_path, extracted_data, exc, written, result, lookup, trace >>

\* one call of ContentScraper._process_audio_with_whisper
VARIABLES
    apc,              \* position inside _process_audio_with_whisper
    audio_input,      \* argument audio_input
    audio_save,       \* argument save_markdown
    audio_file_path,  \* local variable audio_file_path
    files,            \* the audio files that exist on disk
    temps,            \* temporary files created during the call
    transcript,       \* local variable transcript
    audio_out         \* outcome of the call: returned text and path, or error

audiovars == << apc, audio_input, audio_save, audio_file_path, files, temps, transcript, audio_out >>

\* StorageFactory.create_storage and the saves of one FileManager
VARIABLES
    settings,           \* app.config.settings: storage_backend and s3_bucket_name
    storage,            \* outcome of the last create_storage call
    head_bucket_calls,  \* history: head_bucket requests sent by S3Storage.__init__
    now,                \* the clock, in whole seconds
    store,              \* the locators written so far
    rewritten,          \* history: the locators written again after they existed
    nsaves              \* history: number of saves since the backend was created

storevars == << settings, storage, head_bucket_calls, now, store, rewritten, nsaves >>

\* one call of ContentScraper._process_youtube
VARIABLES
    ypc,               \* position inside _process_youtube
    youtube_url,       \* argument youtube_url
    video_id,          \* local variable video_id
    transcript_calls,  \* history: calls of YouTubeTranscriptApi.get_transcript
    youtube_out        \* outcome of the call

ytvars == << ypc, youtube_url, video_id, transcript_calls, youtube_out >>

\* one call of save_json of a storage backend (LocalStorage or S3Storage)
VARIABLES
    jpc,        \* position inside save_json
    jbackend,   \* the backend whose save_json runs
    json_data,      \* the caller's dictionary, as the caller sees it
    json_data_in,   \* history: the caller's dictionary when save_json was called
    json_metadata,  \* argument metadata
    save_data,  \* local variable save_data: the object and its value
    dumped      \* the payload handed to json.dump / put_object, if any

jsonvars == << jpc, jbackend, json_data, json_data_in, json_metadata, save_data, dumped >>

\* the requests one worker handles on its event loop
VARIABLES
    tpc,      \* position of each request's coroutine
    tinput,   \* input type of each request
    waiting,  \* the external call each request is waiting on, or "none"
    running   \* the coroutine that holds the event loop's thread, if any

loopvars == << tpc, tinput, waiting, running >>

\* one call of ContentScraper._process_url_async
VARIABLES
    upc,         \* position inside _process_url_async
    url_save,    \* argument save_markdown
    playwright,  \* the async_playwright() context: "none", "started", "stopped"
    browser,     \* "none"; "open": launched, browser.close() not run; "closed"
    html_text,   \* the text html2text made of the page
    url_out      \* outcome of the call

urlvars == << upc, url_save, playwright, browser, html_text, url_out >>

extvars == << jsonvars, loopvars, urlvars >>

vars == << regvars, pipevars, audiovars, storevars, ytvars, extvars >>

\* ------------------------------------------------------------------------
\* Optional values: None is the empty sequence, Some(x) a one-element one
\* ------------------------------------------------------------------------
None == << >>

Some(x) == << x >>

IsNone(o) == o = << >>

\* ========================================================================
\* SchemaRegistry
\* ========================================================================

\* The modules pkgutil.iter_modules yields for app/models/schemas, in sorted
\* order, each with the BaseExtractionSchema subclass it defines.  classattr
\* says whether extraction_type is a class attribute (ClassVar) of that class:
\* a pydantic field with a default is not an attribute of the class, so
\* hasattr(attr, 'extraction_type') is false for it.
SchemaModules ==
    << [name |-> "bookmarks",    cls |-> "BookmarkExtraction",   extraction_type |-> "bookmarks",    classattr |-> FALSE],
       [name |-> "books",        cls |-> "BookExtraction",       extraction_type |-> "books",        classattr |-> FALSE],
       [name |-> "insights",     cls |-> "InsightsExtraction",   extraction_type |-> "insights",     classattr |-> FALSE],
       [name |-> "job_postings", cls |-> "JobPostingExtraction", extraction_type |-> "job_postings", classattr |-> FALSE],
       [name |-> "notes",        cls |-> "NotesExtraction",      extraction_type |-> "notes",        classattr |-> FALSE],
       [name |-> "quotes",       cls |-> "QuotesExtraction",     extraction_type |-> "quotes",       classattr |-> FALSE],
       [name |-> "recipes",      cls |-> "RecipeExtraction",     extraction_type |-> "recipes",      classattr |-> TRUE] >>

\* the keys the callers of the model look up
LookupKeys == {"recipes", "notes"}

Callers == 1 .. NumCallers

RegistryOps == {"discover_schemas", "get_schema", "get_available_types", "reload_schemas"}

\* the empty dict
EmptyMap == [k \in {} |-> "x"]

\* cls._schemas[extraction_type] = attr
MapPut(m, k, v) == [x \in (DOMAIN m) \cup {k} |-> IF x = k THEN v ELSE m[x]]

NoResult == [kind |-> "none", key |-> "", cls |-> "", available |-> {}]

\* raise ValueError(f"Unknown extraction type: {extraction_type}. Available: {available}")
UnknownTypeErrorNoList(key, m) ==
    [kind |-> "ValueError", key |-> key, cls |-> "", available |-> {}]

UnknownTypeError(key, m) ==
    [kind |-> "ValueError", key |-> key, cls |-> "", available |-> DOMAIN m]

\* the condition under which the scan loop registers the class of a module
Registers(mod) == mod.classattr /\ mod.extraction_type # ""

\* the guard at the top of discover_schemas: "if cls._discovered: return"
SkipsDiscoveryNever(flag) == FALSE

SkipsDiscovery(flag) == flag

RegistryInit ==
    /\ schemas = EmptyMap
    /\ discovered = FALSE
    /\ rpc = [c \in Callers |-> "idle"]
    /\ rop = [c \in Callers |-> "discover_schemas"]
    /\ rkey = [c \in Callers |-> "recipes"]
    /\ ridx = [c \in Callers |-> 0]
    /\ rres = [c \in Callers |-> NoResult]
    /\ scan_count = 0
    /\ completed = None

\* a thread enters one of the registry's class methods
Call(c) ==
    /\ rpc[c] = "idle"
    /\ \E op \in RegistryOps, k \in LookupKeys :
         /\ op # "get_schema" => k = "recipes"
         /\ rop' = [rop EXCEPT ![c] = op]
         /\ rkey' = [rkey EXCEPT ![c] = k]
         /\ rpc' = [rpc EXCEPT ![c] = IF op = "reload_schemas" THEN "reload_clear" ELSE "disc_check"]
    /\ rres' = [rres EXCEPT ![c] = NoResult]
    /\ ridx' = [ridx EXCEPT ![c] = 0]
    /\ UNCHANGED << schemas, discovered, scan_count, completed >>
    /\ UNCHANGED << pipevars, audiovars, storevars, ytvars, extvars >>

\* the method and argument slots of a caller once its method has returned
Returned(f, c, default) == [f EXCEPT ![c] = default]

\* where a caller continues once discover_schemas has returned
AfterDiscover(c) ==
    CASE rop[c] = "get_schema" -> "lookup_check"
      [] rop[c] = "get_available_types" -> "list_keys"
      [] OTHER -> "idle"

\* discover_schemas: "if cls._discovered: return"
DiscoverCheck(c) ==
    /\ rpc[c] = "disc_check"
    /\ IF SkipsDiscovery(discovered)
         THEN /\ rpc' = [rpc EXCEPT ![c] = AfterDiscover(c)]
              /\ rres' = [rres EXCEPT ![c] =
                    IF AfterDiscover(c) = "idle"
                      THEN [NoResult EXCEPT !.kind = "already_discovered"]
                      ELSE rres[c]]
              /\ rop' = IF AfterDiscover(c) = "idle" THEN Returned(rop, c, "discover_schemas") ELSE rop
              /\ UNCHANGED << ridx, scan_count >>
         ELSE /\ rpc' = [rpc EXCEPT ![c] = "disc_scan"]
              /\ ridx' = [ridx EXCEPT ![c] = 1]
              /\ scan_count' = scan_count + 1
              /\ UNCHANGED << rres, rop >>
    /\ UNCHANGED << schemas, discovered, rkey, completed >>
    /\ UNCHANGED << pipevars, audiovars, storevars, ytvars, extvars >>

\* one iteration of "for module_info in pkgutil.iter_modules(...)"
DiscoverScan(c) ==
    /\ rpc[c] = "disc_scan"
    /\ LET mod == SchemaModules[ridx[c]] IN
         schemas' = IF Registers(mod)
                      THEN MapPut(schemas, mod.extraction_type, mod.cls)
                      ELSE schemas
    /\ IF ridx[c] < Len(SchemaModules)
         THEN /\ ridx' = [ridx EXCEPT ![c] = ridx[c] + 1]
              /\ UNCHANGED rpc
         ELSE /\ rpc' = [rpc EXCEPT ![c] = "disc_finish"]
              /\ ridx' = [ridx EXCEPT ![c] = 0]
    /\ UNCHANGED << discovered, rop, rkey, rres, scan_count, completed >>
    /\ UNCHANGED << pipevars, audiovars, storevars, ytvars, extvars >>

\* "cls._discovered = True" and the return of discover_schemas
DiscoverFinish(c) ==
    /\ rpc[c] = "disc_finish"
    /\ discovered' = TRUE
    /\ completed' = IF IsNone(completed) THEN Some(schemas) ELSE completed
    /\ rpc' = [rpc EXCEPT ![c] = AfterDiscover(c)]
    /\ rres' = [rres EXCEPT ![c] =
          IF AfterDiscover(c) = "idle"
            THEN [NoResult EXCEPT !.kind = "discovered"]
            ELSE rres[c]]
    /\ rop' = IF AfterDiscover(c) = "idle" THEN Returned(rop, c, "discover_schemas") ELSE rop
    /\ UNCHANGED << schemas, rkey, ridx, scan_count >>
    /\ UNCHANGED << pipevars, audiovars, storevars, ytvars, extvars >>

\* get_schema: "if extraction_type not in cls._schemas:"
LookupCheck(c) ==
    /\ rpc[c] = "lookup_check"
    /\ rpc' = [rpc EXCEPT ![c] =
          IF rkey[c] \notin DOMAIN schemas THEN "lookup_raise" ELSE "lookup_return"]
    /\ UNCHANGED << schemas, discovered, rop, rkey, ridx, rres, scan_count, completed >>
    /\ UNCHANGED << pipevars, audiovars, storevars, ytvars, extvars >>

\* get_schema: "available = list(cls._schemas.keys()); raise ValueError(...)"
LookupRaise(c) ==
    /\ rpc[c] = "lookup_raise"
    /\ rres' = [rres EXCEPT ![c] = UnknownTypeError(rkey[c], schemas)]
    /\ rpc' = [rpc EXCEPT ![c] = "idle"]
    /\ rop' = Returned(rop, c, "discover_schemas")
    /\ rkey' = Returned(rkey, c, "recipes")
    /\ UNCHANGED << schemas, discovered, ridx, scan_count, completed >>
    /\ UNCHANGED << pipevars, audiovars, storevars, ytvars, extvars >>

\* get_schema: "return cls._schemas[extraction_type]" (KeyError when another
\* thread emptied the dict after the membership test)
LookupReturn(c) ==
    /\ rpc[c] = "lookup_return"
    /\ rres' = [rres EXCEPT ![c] =
          IF rkey[c] \in DOMAIN schemas
            THEN [kind |-> "schema", key |-> rkey[c], cls |-> schemas[rkey[c]], available |-> {}]
            ELSE [kind |-> "KeyError", key |-> rkey[c], cls |-> "", available |-> {}]]
    /\ rpc' = [rpc EXCEPT ![c] = "idle"]
    /\ rop' = Returned(rop, c, "discover_schemas")
    /\ rkey' = Returned(rkey, c, "recipes")
    /\ UNCHANGED << schemas, discovered, ridx, scan_count, completed >>
    /\ UNCHANGED << pipevars, audiovars, storevars, ytvars, extvars >>

\* get_available_types: "return list(cls._schemas.keys())"
ListKeys(c) ==
    /\ rpc[c] = "list_keys"
    /\ rres' = [rres EXCEPT ![c] = [kind |-> "keys", key |-> "", cls |-> "", available |-> DOMAIN schemas]]
    /\ rpc' = [rpc EXCEPT ![c] = "idle"]
    /\ rop' = Returned(rop, c, "discover_schemas")
    /\ rkey' = Returned(rkey, c, "recipes")
    /\ UNCHANGED << schemas, discovered, ridx, scan_count, completed >>
    /\ UNCHANGED << pipevars, audiovars, storevars, ytvars, extvars >>

\* reload_schemas: "cls._schemas.clear()"
ReloadClear(c) ==
    /\ rpc[c] = "reload_clear"
    /\ schemas' = EmptyMap
    /\ rpc' = [rpc EXCEPT ![c] = "reload_flag"]
    /\ UNCHANGED << discovered, rop, rkey, ridx, rres, scan_count, completed >>
    /\ UNCHANGED << pipevars, audiovars, storevars, ytvars, extvars >>

\* reload_schemas: "cls._discovered = False", then the call of discover_schemas
ReloadFlag(c) ==
    /\ rpc[c] = "reload_flag"
    /\ discovered' = FALSE
    /\ scan_count' = 0
    /\ rpc' = [rpc EXCEPT ![c] = "disc_check"]
    /\ UNCHANGED << schemas, rop, rkey, ridx, rres, completed >>
    /\ UNCHANGED << pipevars, audiovars, storevars, ytvars, extvars >>

RegistryNext ==
    \E c \in Callers :
        \/ Call(c)
        \/ DiscoverCheck(c)
        \/ DiscoverScan(c)
        \/ DiscoverFinish(c)
        \/ LookupCheck(c)
        \/ LookupRaise(c)
        \/ LookupReturn(c)
        \/ ListKeys(c)
        \/ ReloadClear(c)
        \/ ReloadFlag(c)

\* the sequential discovery pass as one caller runs it: every module from i on
RECURSIVE ScanAll(_, _)
ScanAll(m, i) ==
    IF i > Len(SchemaModules) THEN m
    ELSE ScanAll(IF Registers(SchemaModules[i])
                   THEN MapPut(m, SchemaModules[i].extraction_type, SchemaModules[i].cls)
                   ELSE m, i + 1)

\* the class named cls declares description and prompt as class attributes
HasClassAttrs(cls) ==
    \E i \in 1 .. Len(SchemaModules) : SchemaModules[i].cls = cls /\ SchemaModules[i].classattr

\* ========================================================================
\* Strings (sequences of characters) and paths
\* ========================================================================

StringsUpTo(chars, n) == UNION {[1 .. k -> chars] : k \in 0 .. n}

StartsWith(s, pre) == Len(s) >= Len(pre) /\ SubSeq(s, 1, Len(pre)) = pre

\* str.strip() for the blank character
RECURSIVE LStrip(_)
LStrip(s) == IF s # << >> /\ Head(s) = " " THEN LStrip(Tail(s)) ELSE s

RECURSIVE RStrip(_)
RStrip(s) == IF s # << >> /\ s[Len(s)] = " " THEN RStrip(SubSeq(s, 1, Len(s) - 1)) ELSE s

Strip(s) == RStrip(LStrip(s))

\* str.split("/"): the segments between the slashes, empty ones included
RECURSIVE SplitSlashAcc(_, _, _)
SplitSlashAcc(s, cur, acc) ==
    IF s = << >> THEN Append(acc, cur)
    ELSE IF Head(s) = "/" THEN SplitSlashAcc(Tail(s), << >>, Append(acc, cur))
    ELSE SplitSlashAcc(Tail(s), Append(cur, Head(s)), acc)

SplitSlash(s) == SplitSlashAcc(s, << >>, << >>)

HasSlash(s) == \E i \in 1 .. Len(s) : s[i] = "/"

\* settings.data_dir, the base_dir of LocalStorage
BaseDir == << "data" >>

\* the working directory of the process, as path segments from the root
CwdSegs == << << "srv" >> >>

\* FileManager: "dir_name = output_dir.split('/')[-1] if '/' in output_dir else output_dir"
DirName(output_dir) ==
    IF HasSlash(output_dir)
      THEN SplitSlash(output_dir)[Len(SplitSlash(output_dir))]
      ELSE output_dir

\* FileManager: the relative path handed to the storage backend;
\* output_dir is optional, default_dir is "json" or "markdown"
RelativePath(output_dir, default_dir, filename) ==
    IF ~IsNone(output_dir) /\ output_dir[1] # << >>
      THEN DirName(output_dir[1]) \o << "/" >> \o filename
      ELSE default_dir \o << "/" >> \o filename

\* LocalStorage: "full_path = self.base_dir / filepath" (pathlib: an absolute
\* right operand replaces the left one)
FullPath(filepath) ==
    IF StartsWith(filepath, << "/" >>) THEN filepath ELSE BaseDir \o << "/" >> \o filepath

\* the directory entry the operating system opens for a path string:
\* empty and "." segments are skipped, ".." steps to the parent
RECURSIVE Normalize(_, _)
Normalize(segs, acc) ==
    IF segs = << >> THEN acc
    ELSE IF Head(segs) = << >> \/ Head(segs) = << "." >> THEN Normalize(Tail(segs), acc)
    ELSE IF Head(segs) = << ".", "." >>
           THEN Normalize(Tail(segs), IF acc = << >> THEN acc ELSE SubSeq(acc, 1, Len(acc) - 1))
    ELSE Normalize(Tail(segs), Append(acc, Head(segs)))

ResolvePath(p) ==
    Normalize(SplitSlash(p), IF StartsWith(p, << "/" >>) THEN << >> ELSE CwdSegs)

\* the resolved file lies below the resolved base_dir
InsideBaseDir(p) ==
    LET base == ResolvePath(BaseDir)
        file == ResolvePath(p)
    IN  Len(file) > Len(base) /\ SubSeq(file, 1, Len(base)) = base

\* ========================================================================
\* ExtractionService.process_extraction
\* ========================================================================

\* the input modalities a client may name (the video modality is "youtube_url")
Modalities == {"text", "url", "image", "audio", "youtube_url"}

\* the values of the InputType enum
InputTypeValues == {"text", "url", "image", "youtube_url"}

\* the extraction types the requests of the model name
ExtractionTypes == {"recipes", "notes", "quotes"}

ContentChars == {" ", "x", "/"}

ContentStrings == StringsUpTo(ContentChars, MaxContentLen)

DirChars == {"a", ".", "/"}

OutputDirs == {None} \cup {Some(d) : d \in StringsUpTo(DirChars, MaxDirLen) \ {<< >>}}

NoRequest ==
    [input_type |-> "text", content |-> << >>, extraction_type |-> "recipes",
     save_markdown |-> FALSE, save_json |-> FALSE, output_directory |-> None]

PipeInit ==
    /\ ppc = "idle"
    /\ req = NoRequest
    /\ reject = {}
    /\ raw = << >>
    /\ content = << >>
    /\ markdown_path = None
    /\ extracted_data = None
    /\ exc = None
    /\ written = {}
    /\ result = None
    /\ lookup = None
    /\ trace = << >>

\* ExtractionRequest validation: the InputType enum and validate_content
\* ("if not v or not v.strip()")
ValidationErrorsEmptyOnly(input_type, text) ==
    (IF input_type \in InputTypeValues THEN {} ELSE {"input_type"})
      \cup (IF text = << >> THEN {"content"} ELSE {})

ValidationErrors(input_type, text) ==
    (IF input_type \in InputTypeValues THEN {} ELSE {"input_type"})
      \cup (IF Strip(text) = << >> THEN {"content"} ELSE {})

Error(type, msg) == Some([type |-> type, msg |-> msg])

\* "except Exception": every error class raised below derives from Exception
CaughtOnlyValueError(e) == e.type = "ValueError"

Caught(e) ==
    e.type \in {"ValueError", "AttributeError", "OSError", "APIError", "ValidationError", "PlaywrightError"}

\* the ExtractionResult of the except branch
FailureResultNoMessage(rq, msg) ==
    [success |-> FALSE, extraction_type |-> rq.extraction_type, extracted_data |-> None,
     markdown_path |-> None, json_path |-> None, error_message |-> None]

FailureResult(rq, msg) ==
    [success |-> FALSE, extraction_type |-> rq.extraction_type, extracted_data |-> None,
     markdown_path |-> None, json_path |-> None, error_message |-> Some(msg)]

\* the ExtractionResult of the normal return
SuccessResult(rq, data, md, js) ==
    [success |-> TRUE, extraction_type |-> rq.extraction_type, extracted_data |-> data,
     markdown_path |-> md, json_path |-> js, error_message |-> None]

\* the file name FileManager._generate_filename builds (no "/" in it)
\* FileManager._get_content_hash: the SHA-256 digest of the content; distinct
\* contents of the model have distinct digests, also in their first 8 digits
ContentHash(text) == << "sha256(" >> \o text \o << ")" >>

Filename(kind) == IF kind = "json" THEN << "F.json" >> ELSE << "F.md" >>

\* FileManager.save_markdown / save_json with the local backend: the path written
SavedPath(kind, output_dir) ==
    FullPath(RelativePath(output_dir, IF kind = "json" THEN << "json" >> ELSE << "markdown" >>,
                          Filename(kind)))

\* what a save leaves in the store: the path and, in the file's metadata, the
\* hash of the content argument of save_markdown / save_json
Artifact(kind, output_dir, text) ==
    [kind |-> kind, path |-> SavedPath(kind, output_dir), content_hash |-> ContentHash(text)]

\* ContentScraper.fetch_content: the branch an input type is dispatched to
FetchBranch(input_type) ==
    CASE input_type = "text" -> "_process_text"
      [] input_type = "url" -> "_process_url_async"
      [] input_type = "image" -> "_process_image_with_vision"
      [] input_type = "youtube_url" -> "_process_youtube"
      [] input_type = "audio" -> "_process_audio_with_whisper"
      [] OTHER -> "unsupported"

\* ContentScraper._prepare_image_for_openai: what the input is taken for
ImageForm(image_input) ==
    IF StartsWith(image_input, << "http" >>) THEN "url"
    ELSE IF StartsWith(image_input, << "data:image" >>) THEN "data"
    ELSE IF StartsWith(image_input, << "/" >>) \/ StartsWith(image_input, << ".", "/" >>) THEN "file"
    ELSE "invalid"

\* a client submits a request; pydantic validates it before the endpoint runs
Submit ==
    /\ ppc = "idle"
    /\ \E it \in Modalities, text \in ContentStrings, et \in ExtractionTypes,
          sm \in BOOLEAN, sj \in BOOLEAN, od \in OutputDirs :
         /\ reject' = ValidationErrors(it, text)
         /\ req' = [input_type |-> it,
                    content |-> IF Strip(text) = << >> THEN text ELSE Strip(text),
                    extraction_type |-> et, save_markdown |-> sm, save_json |-> sj,
                    output_directory |-> od]
         /\ ppc' = IF ValidationErrors(it, text) = {} THEN "start" ELSE "rejected"
    /\ raw' = << >>
    /\ content' = << >>
    /\ markdown_path' = None
    /\ extracted_data' = None
    /\ exc' = None
    /\ written' = {}
    /\ result' = None
    /\ lookup' = None
    /\ trace' = << >>
    /\ UNCHANGED << regvars, audiovars, storevars, ytvars, extvars >>

\* process_extraction: "if request.input_type == InputType.IMAGE and
\* request.extraction_type == 'recipes'"
DirectPathAnyImage(rq) == rq.input_type = "image"

DirectPath(rq) == rq.input_type = "image" /\ rq.extraction_type = "recipes"

\* process_extraction: the choice between the direct image path, the text
\* input and ContentScraper.fetch_content
Start ==
    /\ ppc = "start"
    /\ ppc' = IF DirectPath(req) THEN "direct"
              ELSE IF req.input_type = "text" THEN "text"
              ELSE "fetch"
    /\ UNCHANGED << req, reject, raw, content, markdown_path, extracted_data, exc, written, result, lookup, trace >>
    /\ UNCHANGED << regvars, audiovars, storevars, ytvars, extvars >>

\* the marker process_extraction uses as content on the direct image path
\* self.client.beta.chat.completions.parse(...): the engine calls it once,
\* whether it returns (ok) or raises
CompletionRetried(ok) == IF ok THEN << "completion" >> ELSE << "completion", "completion" >>

Completion(ok) == << "completion" >>

\* process_extraction after the engine: the structured artifact is saved when
\* the engine returned (ok); an exception of the engine goes to the except branch
AfterEngineAlwaysSave(ok) == "save_json"

AfterEngine(ok) == IF ok THEN "save_json" ELSE "except"

DirectMarker == << "Direct image extraction - no intermediate text" >>

\* ExtractionEngine.extract_from_image_directly (called only for "recipes"):
\* the image is prepared, then one completion call is made
DirectImage ==
    /\ ppc = "direct"
    /\ \/ /\ ImageForm(req.content) = "invalid"
          /\ exc' = Error("ValueError", << "Invalid image input format" >>)
          /\ ppc' = AfterEngine(FALSE)
          /\ trace' = Append(trace, "extract_from_image_directly")
          /\ UNCHANGED << content, extracted_data >>
       \/ /\ ImageForm(req.content) = "file"
          /\ exc' = Error("OSError", << "cannot open image file" >>)
          /\ ppc' = AfterEngine(FALSE)
          /\ trace' = Append(trace, "extract_from_image_directly")
          /\ UNCHANGED << content, extracted_data >>
       \/ /\ ImageForm(req.content) # "invalid"
          /\ exc' \in {Error("APIError", << "completion call failed" >>),
                       Error("ValidationError", << "output does not match the contract" >>)}
          /\ ppc' = AfterEngine(FALSE)
          /\ trace' = trace \o << "extract_from_image_directly" >> \o Completion(FALSE)
          /\ UNCHANGED << content, extracted_data >>
       \/ /\ ImageForm(req.content) # "invalid"
          /\ extracted_data' = Some("data")
          /\ content' = DirectMarker
          /\ ppc' = AfterEngine(TRUE)
          /\ trace' = trace \o << "extract_from_image_directly" >> \o Completion(TRUE)
          /\ UNCHANGED exc
    /\ UNCHANGED << req, reject, raw, markdown_path, written, result, lookup >>
    /\ UNCHANGED << regvars, audiovars, storevars, ytvars, extvars >>

\* process_extraction, input type text: the content is the request's content,
\* saved through FileManager.save_markdown when save_markdown is set
TextInput ==
    /\ ppc = "text"
    /\ content' = req.content
    /\ \/ /\ ~req.save_markdown
          /\ ppc' = "extract"
          /\ trace' = Append(trace, "acquired")
          /\ UNCHANGED << markdown_path, written, exc >>
       \/ /\ req.save_markdown
          /\ written' = written \cup {Artifact("markdown", req.output_directory, req.content)}
          /\ markdown_path' = Some(SavedPath("markdown", req.output_directory))
          /\ ppc' = "extract"
          /\ trace' = trace \o << "save_markdown", "acquired" >>
          /\ UNCHANGED exc
       \/ /\ req.save_markdown
          /\ exc' = Error("OSError", << "cannot write text artifact" >>)
          /\ ppc' = "except"
          /\ UNCHANGED << markdown_path, written, trace >>
    /\ UNCHANGED << req, reject, raw, extracted_data, result, lookup >>
    /\ UNCHANGED << regvars, audiovars, storevars, ytvars, extvars >>

\* the message of the error a branch raises when the external call gave no text
NoContentMessage(branch) ==
    CASE branch = "_process_url_async" -> << "No content extracted from URL" >>
      [] branch = "_process_image_with_vision" -> << "No content extracted from image" >>
      [] branch = "_process_youtube" -> << "No transcript available for this video" >>
      [] OTHER -> << "No content extracted from audio" >>

\* the checks "if not content" (after strip) and "if not text or not
\* text.strip()" the acquisition branches make on the delivered text
IsBlankOnlyEmpty(s) == s = << >>

IsBlank(s) == Strip(s) = << >>

\* where process_extraction continues after "await self.scraper.fetch_content":
\* with the engine call when it returned, in the except clause when it raised
AfterFetchAlwaysExtract(ok) == "extract"

AfterFetch(ok) == IF ok THEN "extract" ELSE "except"

\* ContentScraper.fetch_content up to the text the external service delivers
\* (rendered page, vision response, transcript).  Whether a video id is found
\* in the URL and whether an image file can be read is left to the environment.
FetchExternal ==
    /\ ppc = "fetch"
    /\ LET branch == FetchBranch(req.input_type)
           external == branch \notin {"_process_text", "unsupported"}
                         /\ (branch = "_process_image_with_vision" => ImageForm(req.content) # "invalid")
       IN
         \/ /\ branch = "unsupported"
            /\ exc' = Error("ValueError", << "Unsupported input type", req.input_type >>)
            /\ ppc' = AfterFetch(FALSE)
            /\ trace' = Append(trace, "fetch_content")
            /\ UNCHANGED raw
         \/ /\ branch = "_process_text"
            /\ raw' = req.content
            /\ ppc' = "fetch_save"
            /\ trace' = Append(trace, "fetch_content")
            /\ UNCHANGED exc
         \/ /\ branch = "_process_image_with_vision"
            /\ ImageForm(req.content) = "invalid"
            /\ exc' = Error("ValueError", << "Invalid image input format" >>)
            /\ ppc' = AfterFetch(FALSE)
            /\ trace' = Append(trace, "fetch_content")
            /\ UNCHANGED raw
         \/ /\ branch = "_process_image_with_vision"
            /\ ImageForm(req.content) = "file"
            /\ exc' = Error("OSError", << "cannot open image file" >>)
            /\ ppc' = AfterFetch(FALSE)
            /\ trace' = Append(trace, "fetch_content")
            /\ UNCHANGED raw
         \/ /\ branch = "_process_youtube"
            /\ exc' = Error("ValueError", << "Invalid YouTube URL" >>)
            /\ ppc' = AfterFetch(FALSE)
            /\ trace' = Append(trace, "fetch_content")
            /\ UNCHANGED raw
         \/ /\ external
            /\ exc' = Error(IF branch = "_process_url_async" THEN "PlaywrightError" ELSE "APIError",
                            << "external call failed" >>)
            /\ ppc' = AfterFetch(FALSE)
            /\ trace' = Append(trace, "fetch_content")
            /\ UNCHANGED raw
         \/ /\ external
            /\ \E r \in ContentStrings :
                 /\ raw' = r
                 /\ trace' = trace \o << "fetch_content", "external" >>
                 /\ IF IsBlank(r)
                      THEN /\ exc' = Error("ValueError", NoContentMessage(branch))
                           /\ ppc' = AfterFetch(FALSE)
                      ELSE /\ ppc' = "fetch_save"
                           /\ UNCHANGED exc
    /\ UNCHANGED << req, reject, content, markdown_path, extracted_data, written, result, lookup >>
    /\ UNCHANGED << regvars, audiovars, storevars, ytvars, extvars >>

\* the text a branch of fetch_content returns: _process_text returns its
\* argument, the other branches return the stripped text
\* the text a branch hands to FileManager.save_markdown: the URL branch saves
\* the stripped text, the other branches the text as the external call gave it
SavedText(branch, text) == IF branch = "_process_url_async" THEN Strip(text) ELSE text

ReturnedText(branch, text) == IF branch = "_process_text" THEN text ELSE Strip(text)

\* ContentScraper.fetch_content after the external call: the optional
\* save_markdown of the text and the return of (text, markdown_path)
FetchSave ==
    /\ ppc = "fetch_save"
    /\ \/ /\ ~req.save_markdown
          /\ content' = ReturnedText(FetchBranch(req.input_type), raw)
          /\ ppc' = AfterFetch(TRUE)
          /\ trace' = Append(trace, "acquired")
          /\ UNCHANGED << markdown_path, written, exc >>
       \/ /\ req.save_markdown
          /\ written' = written \cup {Artifact("markdown", req.output_directory,
                                                SavedText(FetchBranch(req.input_type), raw))}
          /\ markdown_path' = Some(SavedPath("markdown", req.output_directory))
          /\ content' = ReturnedText(FetchBranch(req.input_type), raw)
          /\ ppc' = AfterFetch(TRUE)
          /\ trace' = trace \o << "save_markdown", "acquired" >>
          /\ UNCHANGED exc
       \/ /\ req.save_markdown
          /\ exc' = Error("OSError", << "cannot write text artifact" >>)
          /\ ppc' = AfterFetch(FALSE)
          /\ UNCHANGED << content, markdown_path, written, trace >>
    /\ UNCHANGED << req, reject, raw, extracted_data, result, lookup >>
    /\ UNCHANGED << regvars, audiovars, storevars, ytvars, extvars >>

\* ExtractionEngine.extract_structured_data: the direct-import fallback taken
\* when the registry lookup raised ValueError
FallbackClass(extraction_type) ==
    CASE extraction_type = "recipes" -> Some("RecipeExtraction")
      [] extraction_type = "quotes" -> Some("QuotesExtraction")
      [] extraction_type = "insights" -> Some("InsightsExtraction")
      [] OTHER -> None

\* the schema class extract_structured_data ends up with, given the registry map
ResolveClass(m, extraction_type) ==
    IF extraction_type \in DOMAIN m THEN Some(m[extraction_type]) ELSE FallbackClass(extraction_type)

\* list(cls._schemas.keys()): the keys in insertion order, which is the
\* order of the modules
RECURSIVE KeyList(_, _)
KeyList(keys, i) ==
    IF i > Len(SchemaModules) THEN << >>
    ELSE (IF SchemaModules[i].extraction_type \in keys
            THEN << SchemaModules[i].extraction_type >>
            ELSE << >>) \o KeyList(keys, i + 1)

\* the exception get_schema raises, as the exception objects of the pipeline:
\* ValueError(f"Unknown extraction type: {extraction_type}. Available: {available}")
RegistryException(e) ==
    [type |-> "ValueError",
     msg |-> << "Unknown extraction type", e.key, "Available" >> \o KeyList(e.available, 1)]

\* ExtractionEngine.extract_structured_data: registry lookup (which runs the
\* discovery when it has not run yet), prompt, one completion call
Extract ==
    /\ ppc = "extract"
    /\ schemas' = IF discovered THEN schemas ELSE ScanAll(schemas, 1)
    /\ discovered' = TRUE
    /\ lookup' = IF req.extraction_type \in DOMAIN schemas'
                   THEN None
                   ELSE Some(UnknownTypeError(req.extraction_type, schemas'))
    /\ LET cls == ResolveClass(schemas', req.extraction_type) IN
         \/ /\ IsNone(cls)
            /\ exc' = Error("ValueError", << "Unknown extraction type", req.extraction_type >>)
            /\ ppc' = AfterEngine(FALSE)
            /\ trace' = Append(trace, "extract_structured_data")
            /\ UNCHANGED extracted_data
         \/ /\ ~IsNone(cls)
            /\ ~HasClassAttrs(cls[1])
            /\ exc' = Error("AttributeError", << "prompt" >>)
            /\ ppc' = AfterEngine(FALSE)
            /\ trace' = Append(trace, "extract_structured_data")
            /\ UNCHANGED extracted_data
         \/ /\ ~IsNone(cls)
            /\ HasClassAttrs(cls[1])
            /\ exc' \in {Error("APIError", << "completion call failed" >>),
                         Error("ValidationError", << "output does not match the contract" >>)}
            /\ ppc' = AfterEngine(FALSE)
            /\ trace' = trace \o << "extract_structured_data" >> \o Completion(FALSE)
            /\ UNCHANGED extracted_data
         \/ /\ ~IsNone(cls)
            /\ HasClassAttrs(cls[1])
            /\ extracted_data' = Some("data")
            /\ ppc' = AfterEngine(TRUE)
            /\ trace' = trace \o << "extract_structured_data" >> \o Completion(TRUE)
            /\ UNCHANGED exc
    /\ UNCHANGED << req, reject, raw, content, markdown_path, written, result >>
    /\ UNCHANGED << rpc, rop, rkey, ridx, rres, scan_count, completed >>
    /\ UNCHANGED << audiovars, storevars, ytvars, extvars >>

\* process_extraction: the optional FileManager.save_json and the normal return
SaveJson ==
    /\ ppc = "save_json"
    /\ \/ /\ ~req.save_json
          /\ result' = Some(SuccessResult(req, extracted_data, markdown_path, None))
          /\ ppc' = "returned"
          /\ UNCHANGED << written, exc, trace >>
       \/ /\ req.save_json
          /\ written' = written \cup {Artifact("json", req.output_directory, content)}
          /\ result' = Some(SuccessResult(req, extracted_data, markdown_path,
                                          Some(SavedPath("json", req.output_directory))))
          /\ ppc' = "returned"
          /\ trace' = Append(trace, "save_json")
          /\ UNCHANGED exc
       \/ /\ req.save_json
          /\ exc' = Error("OSError", << "cannot write structured artifact" >>)
          /\ ppc' = "except"
          /\ UNCHANGED << written, result, trace >>
    /\ UNCHANGED << req, reject, raw, content, markdown_path, extracted_data, lookup >>
    /\ UNCHANGED << regvars, audiovars, storevars, ytvars, extvars >>

\* process_extraction: "except Exception as e" and the failure result
Except ==
    /\ ppc = "except"
    /\ IF Caught(exc[1])
         THEN /\ result' = Some(FailureResult(req, exc[1].msg))
              /\ ppc' = "returned"
         ELSE /\ ppc' = "propagated"
              /\ UNCHANGED result
    /\ UNCHANGED << req, reject, raw, content, markdown_path, extracted_data, exc, written, lookup, trace >>
    /\ UNCHANGED << regvars, audiovars, storevars, ytvars, extvars >>

\* the response has been sent; the worker is ready for the next request
NextRequest ==
    /\ ppc \in {"rejected", "returned", "propagated"}
    /\ ppc' = "idle"
    /\ req' = NoRequest
    /\ reject' = {}
    /\ raw' = << >>
    /\ content' = << >>
    /\ markdown_path' = None
    /\ extracted_data' = None
    /\ exc' = None
    /\ written' = {}
    /\ result' = None
    /\ lookup' = None
    /\ trace' = << >>
    /\ UNCHANGED << regvars, audiovars, storevars, ytvars, extvars >>

PipeNext ==
    \/ Submit
    \/ NextRequest
    \/ Start
    \/ DirectImage
    \/ TextInput
    \/ FetchExternal
    \/ FetchSave
    \/ Extract
    \/ SaveJson
    \/ Except

\* the domain endpoints and the extraction type each one assigns to the
\* request before it calls process_extraction
Endpoints ==
    {"/kitchen/extract-recipe", "/kitchen/extract-ingredients", "/articles/extract-quotes",
     "/articles/extract-insights", "/job-postings/extract-job"}

ForcedType(endpoint) ==
    CASE endpoint = "/kitchen/extract-recipe" -> "recipes"
      [] endpoint = "/kitchen/extract-ingredients" -> "ingredients"
      [] endpoint = "/articles/extract-quotes" -> "quotes"
      [] endpoint = "/articles/extract-insights" -> "insights"
      [] endpoint = "/job-postings/extract-job" -> "job_postings"

\* a domain endpoint receives a validated ExtractionRequest (output directory
\* left at its default), overwrites its extraction_type and hands it to
\* process_extraction
EndpointSubmit ==
    /\ ppc = "idle"
    /\ \E ep \in Endpoints, it \in Modalities, text \in ContentStrings,
          sm \in BOOLEAN, sj \in BOOLEAN :
         /\ reject' = ValidationErrors(it, text)
         /\ req' = [input_type |-> it,
                    content |-> IF Strip(text) = << >> THEN text ELSE Strip(text),
                    extraction_type |-> ForcedType(ep), save_markdown |-> sm, save_json |-> sj,
                    output_directory |-> None]
         /\ ppc' = IF ValidationErrors(it, text) = {} THEN "start" ELSE "rejected"
    /\ raw' = << >>
    /\ content' = << >>
    /\ markdown_path' = None
    /\ extracted_data' = None
    /\ exc' = None
    /\ written' = {}
    /\ result' = None
    /\ lookup' = None
    /\ trace' = << >>
    /\ UNCHANGED << regvars, audiovars, storevars, ytvars, extvars >>

EndpointNext ==
    \/ EndpointSubmit
    \/ NextRequest
    \/ Start
    \/ DirectImage
    \/ TextInput
    \/ FetchExternal
    \/ FetchSave
    \/ Extract
    \/ SaveJson
    \/ Except

\* the engine raised ValueError(f"Unknown extraction type: {extraction_type}")
UnknownTypeRaised ==
    /\ ~IsNone(exc)
    /\ exc[1].type = "ValueError"
    /\ exc[1].msg = << "Unknown extraction type", req.extraction_type >>

\* the input types handed to fetch_content by a direct caller
FetchInputTypes == Modalities \cup {"pdf"}

\* a direct call of ContentScraper.fetch_content(content, input_type,
\* save_markdown, output_directory): no request validation runs before it
AcquireCall ==
    /\ ppc = "idle"
    /\ \E it \in FetchInputTypes, text \in ContentStrings, sm \in BOOLEAN, od \in OutputDirs :
         req' = [input_type |-> it, content |-> text, extraction_type |-> "recipes",
                 save_markdown |-> sm, save_json |-> FALSE, output_directory |-> od]
    /\ ppc' = "fetch"
    /\ reject' = {}
    /\ raw' = << >>
    /\ content' = << >>
    /\ markdown_path' = None
    /\ extracted_data' = None
    /\ exc' = None
    /\ written' = {}
    /\ result' = None
    /\ lookup' = None
    /\ trace' = << >>
    /\ UNCHANGED << regvars, audiovars, storevars, ytvars, extvars >>

\* fetch_content has returned (ppc = "extract") or raised (ppc = "except") to
\* its direct caller
AcquireReturn ==
    /\ ppc \in {"extract", "except"}
    /\ ppc' = "idle"
    /\ req' = NoRequest
    /\ reject' = {}
    /\ raw' = << >>
    /\ content' = << >>
    /\ markdown_path' = None
    /\ extracted_data' = None
    /\ exc' = None
    /\ written' = {}
    /\ result' = None
    /\ lookup' = None
    /\ trace' = << >>
    /\ UNCHANGED << regvars, audiovars, storevars, ytvars, extvars >>

AcquireNext ==
    \/ AcquireCall
    \/ FetchExternal
    \/ FetchSave
    \/ AcquireReturn

\* ========================================================================
\* ContentScraper._process_audio_with_whisper
\* ========================================================================

\* The audio_input string, described by what the code asks of it: whether it
\* names an existing file, whether it starts with "data:audio", the MIME type
\* its header declares, and whether its payload decodes as base64.
AudioMimes == {"audio/wav", "audio/mp3", "audio/m4a", "audio/ogg", "audio/flac"}

AudioInputs ==
    [isfile : BOOLEAN, datauri : BOOLEAN, mime : AudioMimes, b64ok : BOOLEAN]

\* the path the caller passed, when audio_input names a file
InputPath == << "audio_input" >>

NoAudioInput == [isfile |-> FALSE, datauri |-> FALSE, mime |-> "audio/wav", b64ok |-> FALSE]

NoOutcome == [kind |-> "none", text |-> << >>, markdown_path |-> None, msg |-> << >>]

AudioInit ==
    /\ apc = "idle"
    /\ audio_input = NoAudioInput
    /\ audio_save = FALSE
    /\ audio_file_path = None
    /\ files = {}
    /\ temps = {}
    /\ transcript = << >>
    /\ audio_out = NoOutcome

\* _prepare_audio_for_openai: the suffix of the temporary file
TempSuffix(in) ==
    IF ~in.datauri THEN ".wav"
    ELSE CASE in.mime = "audio/wav" -> ".wav"
           [] in.mime = "audio/mp3" -> ".mp3"
           [] in.mime = "audio/m4a" -> ".m4a"
           [] in.mime = "audio/ogg" -> ".ogg"
           [] OTHER -> ".wav"

TempName(in) == << "tmp", TempSuffix(in) >>

AudioRaise(type, msg) == [kind |-> "error", text |-> << >>, markdown_path |-> None, msg |-> << type >> \o msg]

\* a caller invokes _process_audio_with_whisper(audio_input, save_markdown, output_dir)
AudioCall ==
    /\ apc = "idle"
    /\ \E in \in AudioInputs, sm \in BOOLEAN :
         /\ audio_input' = in
         /\ audio_save' = sm
         /\ files' = IF in.isfile THEN {InputPath} ELSE {}
    /\ apc' = "prepare"
    /\ audio_file_path' = None
    /\ temps' = {}
    /\ transcript' = << >>
    /\ audio_out' = NoOutcome
    /\ UNCHANGED << regvars, pipevars, storevars, ytvars, extvars >>

\* _prepare_audio_for_openai
AudioPrepare ==
    /\ apc = "prepare"
    /\ IF audio_input.isfile
         THEN /\ audio_file_path' = Some(InputPath)
              /\ apc' = "transcribe"
              /\ UNCHANGED << files, temps, audio_out >>
         ELSE IF audio_input.b64ok
           THEN /\ files' = files \cup {TempName(audio_input)}
                /\ temps' = temps \cup {TempName(audio_input)}
                /\ audio_file_path' = Some(TempName(audio_input))
                /\ apc' = "transcribe"
                /\ UNCHANGED audio_out
           ELSE /\ audio_out' = IF audio_input.datauri
                                  THEN AudioRaise("binascii.Error", << "Incorrect padding" >>)
                                  ELSE AudioRaise("ValueError", << "Invalid audio input format" >>)
                /\ apc' = "raised"
                /\ UNCHANGED << files, temps, audio_file_path >>
    /\ UNCHANGED << audio_input, audio_save, transcript >>
    /\ UNCHANGED << regvars, pipevars, storevars, ytvars, extvars >>

\* the transcription call and the check of its result
AudioTranscribe ==
    /\ apc = "transcribe"
    /\ \/ /\ audio_out' = AudioRaise("APIError", << "transcription failed" >>)
          /\ apc' = "raised"
          /\ UNCHANGED transcript
       \/ \E t \in ContentStrings :
            IF Strip(t) = << >>
              THEN /\ audio_out' = AudioRaise("ValueError", NoContentMessage("_process_audio_with_whisper"))
                   /\ apc' = "raised"
                   /\ UNCHANGED transcript
              ELSE /\ transcript' = t
                   /\ apc' = "save"
                   /\ UNCHANGED audio_out
    /\ UNCHANGED << audio_input, audio_save, audio_file_path, files, temps >>
    /\ UNCHANGED << regvars, pipevars, storevars, ytvars, extvars >>

\* the files left on disk by the clean-up at the end of the normal path:
\* "if audio_file_path != audio_input and os.path.exists(audio_file_path): os.unlink(...)"
CleanedUpAlways(fs, path, in) == fs \ {path}

CleanedUp(fs, path, in) ==
    IF ~in.isfile /\ path \in fs THEN fs \ {path} ELSE fs

\* the optional save_markdown of the transcript, the clean-up, the return
AudioSaveAndReturn ==
    /\ apc = "save"
    /\ \/ /\ audio_save
          /\ audio_out' = AudioRaise("OSError", << "cannot write text artifact" >>)
          /\ apc' = "raised"
          /\ UNCHANGED files
       \/ /\ files' = CleanedUp(files, audio_file_path[1], audio_input)
          /\ audio_out' = [kind |-> "ok", text |-> Strip(transcript),
                           markdown_path |-> IF audio_save
                                               THEN Some(SavedPath("markdown", None))
                                               ELSE None,
                           msg |-> << >>]
          /\ apc' = "returned"
    /\ UNCHANGED << audio_input, audio_save, audio_file_path, temps, transcript >>
    /\ UNCHANGED << regvars, pipevars, storevars, ytvars, extvars >>

\* the caller has the outcome; the next call may start
AudioDone ==
    /\ apc \in {"returned", "raised"}
    /\ apc' = "idle"
    /\ audio_input' = NoAudioInput
    /\ audio_save' = FALSE
    /\ audio_file_path' = None
    /\ files' = {}
    /\ temps' = {}
    /\ transcript' = << >>
    /\ audio_out' = NoOutcome
    /\ UNCHANGED << regvars, pipevars, storevars, ytvars, extvars >>

AudioNext ==
    \/ AudioCall
    \/ AudioPrepare
    \/ AudioTranscribe
    \/ AudioSaveAndReturn
    \/ AudioDone


\* ========================================================================
\* StorageFactory.create_storage and the saves of FileManager
\* ========================================================================

\* the values of settings.storage_backend (Literal["local", "s3"]) and the
\* bucket names the model configures
SettingsValues == [storage_backend : {"local", "s3"}, s3_bucket_name : {<< >>, << "b" >>}]

\* the backend_type arguments the callers of the model pass
BackendArgs == {None, Some(""), Some("local"), Some("s3"), Some("gcs")}

NoStorage == [kind |-> "none", requested |-> None, error |-> ""]

StorageInit ==
    /\ settings \in SettingsValues
    /\ storage = NoStorage
    /\ head_bucket_calls = 0
    /\ now = 0
    /\ store = {}
    /\ rewritten = {}
    /\ nsaves = 0

\* create_storage: "backend = backend_type or settings.storage_backend"
EffectiveBackend(backend_type, st) ==
    IF IsNone(backend_type) \/ backend_type[1] = "" THEN st.storage_backend ELSE backend_type[1]

\* create_storage: the negation of "if not settings.s3_bucket_name"
BucketConfiguredAlways(name) == TRUE

BucketConfigured(name) == name # << >>

StorageError(backend_type, msg) == [kind |-> "error", requested |-> backend_type, error |-> msg]

\* StorageFactory.create_storage(backend_type), the constructor of the chosen
\* backend included.  S3Storage.__init__ raises ImportError without boto3 and
\* otherwise sends one head_bucket request, which may be refused.
CreateStorage ==
    /\ \E bt \in BackendArgs :
         LET backend == EffectiveBackend(bt, settings) IN
           IF backend = "local"
             THEN /\ storage' = [kind |-> "local", requested |-> bt, error |-> ""]
                  /\ head_bucket_calls' = 0
             ELSE IF backend = "s3"
               THEN IF ~BucketConfigured(settings.s3_bucket_name)
                      THEN /\ storage' = StorageError(bt, "S3 bucket name is required when using S3 storage")
                           /\ head_bucket_calls' = 0
                      ELSE \/ /\ storage' = StorageError(bt, "boto3 is required for S3 storage")
                              /\ head_bucket_calls' = 0
                           \/ /\ storage' = StorageError(bt, "Error accessing S3 bucket")
                              /\ head_bucket_calls' = 1
                           \/ /\ storage' = [kind |-> "s3", requested |-> bt, error |-> ""]
                              /\ head_bucket_calls' = 1
               ELSE /\ storage' = StorageError(bt, "Unsupported storage backend")
                    /\ head_bucket_calls' = 0
    /\ UNCHANGED << settings, now, store, rewritten, nsaves >>
    /\ UNCHANGED << regvars, pipevars, audiovars, ytvars, extvars >>

\* the contents, extraction types and filename prefixes the saves are called with
StoreContents == {<< "x" >>, << "y" >>}

StoreTypes == {"notes"}

Prefixes == {None, Some(<< >>), Some(<< "p" >>)}

\* datetime.now(timezone.utc).strftime("%Y%m%d_%H%M%S"): one value per second
Timestamp(t) == ToString(t)

\* FileManager._generate_filename
GenerateFilename(content_hash, extraction_type, prefix, extension, t) ==
    (IF ~IsNone(prefix) /\ prefix[1] # << >> THEN prefix[1] \o << "_" >> ELSE << >>)
      \o << extraction_type, "_" >> \o content_hash \o << "_", Timestamp(t), extension >>

\* settings.s3_prefix after S3Storage.__init__ normalised it
S3Prefix == << "fastapi-data-extractor", "/" >>

RECURSIVE LStripSlash(_)
LStripSlash(s) == IF s # << >> /\ Head(s) = "/" THEN LStripSlash(Tail(s)) ELSE s

\* the locator a backend writes a relative path to and returns:
\* LocalStorage str(base_dir / filepath), S3Storage "s3://{bucket}/{key}"
Locator(backend, filepath) ==
    IF backend = "local"
      THEN FullPath(filepath)
      ELSE << "s3://" >> \o settings.s3_bucket_name \o << "/" >> \o S3Prefix \o LStripSlash(filepath)

\* one save through the backend: open(full_path, "w") or put_object replaces
\* whatever the locator held
Written(loc) ==
    /\ store' = store \cup {loc}
    /\ rewritten' = IF loc \in store THEN rewritten \cup {loc} ELSE rewritten

\* FileManager.save_json(data, content, extraction_type, None, filename_prefix)
FileManagerSaveJson ==
    /\ storage.kind \in {"local", "s3"}
    /\ nsaves < MaxSaves
    /\ \E text \in StoreContents, et \in StoreTypes, prefix \in Prefixes :
         Written(Locator(storage.kind,
                         RelativePath(None, << "json" >>,
                                      GenerateFilename(ContentHash(text), et, prefix, ".json", now))))
    /\ nsaves' = nsaves + 1
    /\ UNCHANGED << settings, storage, head_bucket_calls, now >>
    /\ UNCHANGED << regvars, pipevars, audiovars, ytvars, extvars >>

\* FileManager.save_markdown(content, None, None, filename_prefix)
FileManagerSaveMarkdown ==
    /\ storage.kind \in {"local", "s3"}
    /\ nsaves < MaxSaves
    /\ \E text \in StoreContents, prefix \in Prefixes :
         Written(Locator(storage.kind,
                         RelativePath(None, << "markdown" >>,
                                      GenerateFilename(ContentHash(text), "markdown", prefix, ".md", now))))
    /\ nsaves' = nsaves + 1
    /\ UNCHANGED << settings, storage, head_bucket_calls, now >>
    /\ UNCHANGED << regvars, pipevars, audiovars, ytvars, extvars >>

\* a second passes
Tick ==
    /\ now < MaxClock
    /\ now' = now + 1
    /\ UNCHANGED << settings, storage, head_bucket_calls, store, rewritten, nsaves >>
    /\ UNCHANGED << regvars, pipevars, audiovars, ytvars, extvars >>

StorageNext ==
    \/ CreateStorage
    \/ FileManagerSaveJson
    \/ FileManagerSaveMarkdown
    \/ Tick

\* ========================================================================
\* ContentScraper._process_youtube and _extract_youtube_id
\* ========================================================================

\* A URL is a sequence of tokens: the three literals the patterns look for
\* ("youtube.com/watch" is followed by "?" and "v=" in the watch shape), the
\* delimiters, and "A" for any other text.
UrlTokens == {"youtu.be/", "youtube.com/watch", "youtube.com/embed/", "?", "v=", "&", "#", "A"}

Urls == StringsUpTo(UrlTokens, MaxUrlLen)

\* the characters the group "[^&\n?#]+" stops at
ExcludedNoAmpersand == {"?", "#"}

Excluded == {"&", "?", "#"}

\* "(?:youtube\.com\/watch\?v=|youtu\.be\/|youtube\.com\/embed\/)"
ShapeLiterals ==
    { << "youtube.com/watch", "?", "v=" >>, << "youtu.be/" >>, << "youtube.com/embed/" >> }

\* the literal lit occurs in s at position i
OccursAt(s, lit, i) ==
    /\ i + Len(lit) - 1 <= Len(s)
    /\ SubSeq(s, i, i + Len(lit) - 1) = lit

\* the greedy group "([^&\n?#]+)" matched from position i on: the longest
\* run of tokens outside the excluded set
RECURSIVE IdRun(_, _)
IdRun(s, i) ==
    IF i > Len(s) \/ s[i] \in Excluded THEN << >>
    ELSE << s[i] >> \o IdRun(s, i + 1)

\* the first pattern anchored at position i: group 1, or None
MatchShapeAt(s, i) ==
    IF \E lit \in ShapeLiterals : OccursAt(s, lit, i) /\ IdRun(s, i + Len(lit)) # << >>
      THEN LET lit == CHOOSE l \in ShapeLiterals : OccursAt(s, l, i) /\ IdRun(s, i + Len(l)) # << >>
           IN  Some(IdRun(s, i + Len(lit)))
      ELSE None

\* the second pattern "youtube\.com\/watch\?.*v=([^&\n?#]+)" anchored at i:
\* the greedy ".*" leaves the last "v=" that a non-empty group can follow
MatchQueryAt(s, i) ==
    LET starts == {j \in i + 2 .. Len(s) : s[j] = "v=" /\ IdRun(s, j + 1) # << >>} IN
      IF OccursAt(s, << "youtube.com/watch", "?" >>, i) /\ starts # {}
        THEN Some(IdRun(s, (CHOOSE j \in starts : \A k \in starts : k <= j) + 1))
        ELSE None

\* re.search: the match at the leftmost position where the pattern matches
SearchShape(s) ==
    LET hits == {i \in 1 .. Len(s) : ~IsNone(MatchShapeAt(s, i))} IN
      IF hits = {} THEN None ELSE MatchShapeAt(s, CHOOSE i \in hits : \A k \in hits : i <= k)

SearchQuery(s) ==
    LET hits == {i \in 1 .. Len(s) : ~IsNone(MatchQueryAt(s, i))} IN
      IF hits = {} THEN None ELSE MatchQueryAt(s, CHOOSE i \in hits : \A k \in hits : i <= k)

\* ContentScraper._extract_youtube_id: the patterns are tried in order
ExtractYoutubeId(url) ==
    IF ~IsNone(SearchShape(url)) THEN SearchShape(url) ELSE SearchQuery(url)

\* the joined transcript texts get_transcript may deliver
TranscriptTexts == {<< >>, << " " >>, << "x" >>, << "x", " " >>}

YoutubeInit ==
    /\ ypc = "idle"
    /\ youtube_url = << >>
    /\ video_id = None
    /\ transcript_calls = 0
    /\ youtube_out = NoOutcome

\* a caller invokes _process_youtube(youtube_url, False, None)
YoutubeCall ==
    /\ ypc = "idle"
    /\ \E u \in Urls : youtube_url' = u
    /\ ypc' = "extract_id"
    /\ video_id' = None
    /\ transcript_calls' = 0
    /\ youtube_out' = NoOutcome
    /\ UNCHANGED << regvars, pipevars, audiovars, storevars, extvars >>

\* "video_id = self._extract_youtube_id(youtube_url); if not video_id: raise"
YoutubeExtractId ==
    /\ ypc = "extract_id"
    /\ video_id' = ExtractYoutubeId(youtube_url)
    /\ IF IsNone(video_id')
         THEN /\ youtube_out' = AudioRaise("ValueError", << "Invalid YouTube URL" >>)
              /\ ypc' = "raised"
         ELSE /\ ypc' = "transcript"
              /\ UNCHANGED youtube_out
    /\ UNCHANGED << youtube_url, transcript_calls >>
    /\ UNCHANGED << regvars, pipevars, audiovars, storevars, extvars >>

\* YouTubeTranscriptApi.get_transcript, the check of the joined text and the
\* return of the stripped text
YoutubeTranscript ==
    /\ ypc = "transcript"
    /\ transcript_calls' = transcript_calls + 1
    /\ \/ /\ youtube_out' = AudioRaise("TranscriptError", << "transcript fetch failed" >>)
          /\ ypc' = "raised"
       \/ \E t \in TranscriptTexts :
            IF IsBlank(t)
              THEN /\ youtube_out' = AudioRaise("ValueError", NoContentMessage("_process_youtube"))
                   /\ ypc' = "raised"
              ELSE /\ youtube_out' = [kind |-> "ok", text |-> Strip(t), markdown_path |-> None, msg |-> << >>]
                   /\ ypc' = "returned"
    /\ UNCHANGED << youtube_url, video_id >>
    /\ UNCHANGED << regvars, pipevars, audiovars, storevars, extvars >>

\* the caller has the outcome; the next call may start
YoutubeDone ==
    /\ ypc \in {"returned", "raised"}
    /\ ypc' = "idle"
    /\ youtube_url' = << >>
    /\ video_id' = None
    /\ transcript_calls' = 0
    /\ youtube_out' = NoOutcome
    /\ UNCHANGED << regvars, pipevars, audiovars, storevars, extvars >>

YoutubeNext ==
    \/ YoutubeCall
    \/ YoutubeExtractId
    \/ YoutubeTranscript
    \/ YoutubeDone

\* ========================================================================
\* save_json of the storage backends (local_storage.py, s3_storage.py)
\* ========================================================================

Backends == {"local", "s3"}

MetaKeys == {"content_hash", "timestamp"}

MetaValues == {"v1", "v2"}

\* {}
EmptyDict == [k \in {} |-> "v1"]

\* the dictionaries with keys among MetaKeys
MetaDicts == UNION {[K -> MetaValues] : K \in SUBSET MetaKeys}

\* d.get(key, default)
DictGet(d, key, default) == IF key \in DOMAIN d THEN d[key] ELSE default

\* d[key] = v
DictSet(d, key, v) == [k \in (DOMAIN d) \cup {key} |-> IF k = key THEN v ELSE d[k]]

\* the dictionaries a caller passes as data: the extracted data, with or
\* without a metadata map of its own
DataDicts ==
    {DictSet(EmptyDict, "extracted_data", "x")}
    \cup {DictSet(DictSet(EmptyDict, "extracted_data", "x"), "metadata", m) : m \in MetaDicts}

\* the metadata arguments: None (the default) or a dictionary
MetadataArgs == {None} \cup {Some(m) : m \in MetaDicts}

\* `if metadata:` is false for None and for the empty dictionary
Truthy(m) == ~IsNone(m) /\ DOMAIN m[1] # {}

\* {**old, **new}: the items of new replace those of old
MergeOldWins(old, new) ==
    [k \in (DOMAIN old) \cup (DOMAIN new) |-> IF k \in DOMAIN old THEN old[k] ELSE new[k]]

Merge(old, new) ==
    [k \in (DOMAIN old) \cup (DOMAIN new) |-> IF k \in DOMAIN new THEN new[k] ELSE old[k]]

\* data.copy(): a new object with the same items
Copy(d) == [aliased |-> FALSE, value |-> d]

NoDict == [aliased |-> FALSE, value |-> EmptyDict]

JsonInit ==
    /\ jpc = "idle"
    /\ jbackend = "local"
    /\ json_data = EmptyDict
    /\ json_data_in = EmptyDict
    /\ json_metadata = None
    /\ save_data = NoDict
    /\ dumped = None

\* a caller calls storage.save_json(data, filepath, metadata)
JsonCall ==
    /\ jpc \in {"idle", "returned", "raised"}
    /\ \E b \in Backends, d \in DataDicts, m \in MetadataArgs :
          /\ jbackend' = b
          /\ json_data' = d
          /\ json_data_in' = d
          /\ json_metadata' = m
    /\ save_data' = NoDict
    /\ dumped' = None
    /\ jpc' = "called"
    /\ UNCHANGED << regvars, pipevars, audiovars, storevars, ytvars, loopvars, urlvars >>

\* save_data = data.copy()
JsonCopy ==
    /\ jpc = "called"
    /\ save_data' = Copy(json_data)
    /\ jpc' = "copied"
    /\ UNCHANGED << jbackend, json_data, json_data_in, json_metadata, dumped >>
    /\ UNCHANGED << regvars, pipevars, audiovars, storevars, ytvars, loopvars, urlvars >>

\* if metadata: save_data["metadata"] = {**save_data.get("metadata", {}), **metadata}
JsonMerge ==
    /\ jpc = "copied"
    /\ IF Truthy(json_metadata)
       THEN LET merged == Merge(DictGet(save_data.value, "metadata", EmptyDict), json_metadata[1])
                value == DictSet(save_data.value, "metadata", merged)
            IN /\ save_data' = [save_data EXCEPT !.value = value]
               /\ json_data' = IF save_data.aliased THEN value ELSE json_data
       ELSE UNCHANGED << save_data, json_data >>
    /\ jpc' = "merged"
    /\ UNCHANGED << jbackend, json_data_in, json_metadata, dumped >>
    /\ UNCHANGED << regvars, pipevars, audiovars, storevars, ytvars, loopvars, urlvars >>

\* json.dump(save_data, f, ...) into the opened file, or json.dumps(save_data)
\* and put_object; opening the file or the request to the bucket may fail
JsonWrite ==
    /\ jpc = "merged"
    /\ \/ /\ dumped' = Some(save_data.value)
          /\ jpc' = "returned"
       \/ /\ dumped' = None
          /\ jpc' = "raised"
    /\ UNCHANGED << jbackend, json_data, json_data_in, json_metadata, save_data >>
    /\ UNCHANGED << regvars, pipevars, audiovars, storevars, ytvars, loopvars, urlvars >>

JsonNext ==
    \/ JsonCall
    \/ JsonCopy
    \/ JsonMerge
    \/ JsonWrite

\* ========================================================================
\* The event loop of one worker (endpoints and process_extraction are
\* coroutines; the calls they make are awaited or plain)
\* ========================================================================

Tasks == 1 .. NumTasks

\* ExtractionService.process_extraction dispatches on these input types
LoopInputTypes == InputTypeValues

\* the calls of fetch_content's branches: _process_url_async is awaited
\* (async_playwright); the vision call and the transcript fetch are plain
\* calls of synchronous clients
ExternalCall(input_type) ==
    CASE input_type = "url" -> "browser"
      [] input_type = "image" -> "vision"
      [] input_type = "youtube_url" -> "transcript"
      [] OTHER -> "none"

\* whether the coroutine suspends (hands the thread back to the loop) while
\* the call is in flight: only the browser calls are awaited
Awaited(call) == call = "browser"

LoopInit ==
    /\ tpc = [t \in Tasks |-> "idle"]
    /\ tinput = [t \in Tasks |-> "text"]
    /\ waiting = [t \in Tasks |-> "none"]
    /\ running = None

\* a request arrives; its coroutine is ready to run
Arrive(t) ==
    /\ tpc[t] = "idle"
    /\ \E it \in LoopInputTypes : tinput' = [tinput EXCEPT ![t] = it]
    /\ tpc' = [tpc EXCEPT ![t] = "ready"]
    /\ UNCHANGED << waiting, running >>
    /\ UNCHANGED << regvars, pipevars, audiovars, storevars, ytvars, jsonvars, urlvars >>

\* the loop, when no coroutine holds its thread, runs a coroutine that is
\* ready or whose awaited call has finished
Resume(t) ==
    /\ running = None
    /\ tpc[t] \in {"ready", "resumable"}
    /\ running' = Some(t)
    /\ tpc' = [tpc EXCEPT ![t] = IF tpc[t] = "ready" THEN "acquire" ELSE "extract"]
    /\ UNCHANGED << tinput, waiting >>
    /\ UNCHANGED << regvars, pipevars, audiovars, storevars, ytvars, jsonvars, urlvars >>

\* process_extraction up to the external call of the acquisition
StartCall(t) ==
    /\ running = Some(t)
    /\ tpc[t] = "acquire"
    /\ LET call == ExternalCall(tinput[t]) IN
         IF call = "none"
           THEN /\ tpc' = [tpc EXCEPT ![t] = "extract"]
                /\ UNCHANGED << waiting, running >>
           ELSE /\ waiting' = [waiting EXCEPT ![t] = call]
                /\ IF Awaited(call)
                     THEN /\ tpc' = [tpc EXCEPT ![t] = "suspended"]
                          /\ running' = None
                     ELSE /\ tpc' = [tpc EXCEPT ![t] = "in_call"]
                          /\ UNCHANGED running
    /\ UNCHANGED tinput
    /\ UNCHANGED << regvars, pipevars, audiovars, storevars, ytvars, jsonvars, urlvars >>

\* the external call of the acquisition finishes
CallDone(t) ==
    /\ tpc[t] \in {"suspended", "in_call"}
    /\ waiting' = [waiting EXCEPT ![t] = "none"]
    /\ tpc' = [tpc EXCEPT ![t] = IF tpc[t] = "suspended" THEN "resumable" ELSE "extract"]
    /\ UNCHANGED << tinput, running >>
    /\ UNCHANGED << regvars, pipevars, audiovars, storevars, ytvars, jsonvars, urlvars >>

\* extract_structured_data / extract_from_image_directly: a plain call of
\* the synchronous client's completions.parse
StartCompletion(t) ==
    /\ running = Some(t)
    /\ tpc[t] = "extract"
    /\ waiting' = [waiting EXCEPT ![t] = "completion"]
    /\ tpc' = [tpc EXCEPT ![t] = "in_completion"]
    /\ UNCHANGED << tinput, running >>
    /\ UNCHANGED << regvars, pipevars, audiovars, storevars, ytvars, jsonvars, urlvars >>

\* the completion call returns or raises; process_extraction builds its
\* result and the coroutine ends
CompletionDone(t) ==
    /\ tpc[t] = "in_completion"
    /\ running = Some(t)
    /\ waiting' = [waiting EXCEPT ![t] = "none"]
    /\ tpc' = [tpc EXCEPT ![t] = "idle"]
    /\ running' = None
    /\ UNCHANGED tinput
    /\ UNCHANGED << regvars, pipevars, audiovars, storevars, ytvars, jsonvars, urlvars >>

LoopNext ==
    \/ \E t \in Tasks : Arrive(t)
    \/ \E t \in Tasks : Resume(t)
    \/ \E t \in Tasks : StartCall(t)
    \/ \E t \in Tasks : CallDone(t)
    \/ \E t \in Tasks : StartCompletion(t)
    \/ \E t \in Tasks : CompletionDone(t)

\* ========================================================================
\* ContentScraper._process_url_async
\* ========================================================================

NoUrlOutcome == [kind |-> "none", text |-> << >>, msg |-> << >>]

UrlRaise(type, msg) == [kind |-> "error", text |-> << >>, msg |-> << type >> \o msg]

UrlInit ==
    /\ upc = "idle"
    /\ url_save = FALSE
    /\ playwright = "none"
    /\ browser = "none"
    /\ html_text = << >>
    /\ url_out = NoUrlOutcome

\* a caller awaits _process_url_async(url, save_markdown, output_dir):
\* "async with async_playwright() as p" is entered
UrlCall ==
    /\ upc \in {"idle", "returned", "raised"}
    /\ \E sm \in BOOLEAN : url_save' = sm
    /\ playwright' = "started"
    /\ browser' = "none"
    /\ html_text' = << >>
    /\ url_out' = NoUrlOutcome
    /\ upc' = "launch"
    /\ UNCHANGED << regvars, pipevars, audiovars, storevars, ytvars, jsonvars, loopvars >>

\* browser = await p.chromium.launch(headless=True), before the try block:
\* an error leaves the context and the function
UrlLaunch ==
    /\ upc = "launch"
    /\ \/ /\ browser' = "open"
          /\ upc' = "new_page"
          /\ UNCHANGED << playwright, url_out >>
       \/ /\ playwright' = "stopped"
          /\ url_out' = UrlRaise("PlaywrightError", << "launch failed" >>)
          /\ upc' = "raised"
          /\ UNCHANGED browser
    /\ UNCHANGED << url_save, html_text >>
    /\ UNCHANGED << regvars, pipevars, audiovars, storevars, ytvars, jsonvars, loopvars >>

\* page = await browser.new_page(), before the try block: an error leaves
\* the context and the function without reaching the finally clause
UrlNewPage ==
    /\ upc = "new_page"
    /\ \/ /\ upc' = "goto"
          /\ UNCHANGED << playwright, url_out >>
       \/ /\ playwright' = "stopped"
          /\ url_out' = UrlRaise("PlaywrightError", << "page creation failed" >>)
          /\ upc' = "raised"
    /\ UNCHANGED << url_save, browser, html_text >>
    /\ UNCHANGED << regvars, pipevars, audiovars, storevars, ytvars, jsonvars, loopvars >>

\* inside the try block: page.goto, page.content and html2text
UrlNavigate ==
    /\ upc = "goto"
    /\ \/ \E text \in ContentStrings :
            /\ html_text' = text
            /\ upc' = "check"
            /\ UNCHANGED url_out
       \/ /\ url_out' = UrlRaise("PlaywrightError", << "navigation failed" >>)
          /\ upc' = "finally"
          /\ UNCHANGED html_text
    /\ UNCHANGED << url_save, playwright, browser >>
    /\ UNCHANGED << regvars, pipevars, audiovars, storevars, ytvars, jsonvars, loopvars >>

\* content = markdown_content.strip(); "if not content: raise ValueError";
\* the optional save_markdown; the return value
UrlCheckAndSave ==
    /\ upc = "check"
    /\ IF Strip(html_text) = << >>
         THEN url_out' = UrlRaise("ValueError", NoContentMessage("_process_url_async"))
         ELSE \/ url_out' = [kind |-> "ok", text |-> Strip(html_text), msg |-> << >>]
              \/ /\ url_save
                 /\ url_out' = UrlRaise("OSError", << "cannot write text artifact" >>)
    /\ upc' = "finally"
    /\ UNCHANGED << url_save, playwright, browser, html_text >>
    /\ UNCHANGED << regvars, pipevars, audiovars, storevars, ytvars, jsonvars, loopvars >>

\* "finally: await browser.close()", then the exit of the context and of
\* the function
UrlFinally ==
    /\ upc = "finally"
    /\ browser' = "closed"
    /\ playwright' = "stopped"
    /\ upc' = IF url_out.kind = "ok" THEN "returned" ELSE "raised"
    /\ UNCHANGED << url_save, html_text, url_out >>
    /\ UNCHANGED << regvars, pipevars, audiovars, storevars, ytvars, jsonvars, loopvars >>

UrlNext ==
    \/ UrlCall
    \/ UrlLaunch
    \/ UrlNewPage
    \/ UrlNavigate
    \/ UrlCheckAndSave
    \/ UrlFinally

\* ========================================================================
\* Specifications
\* ========================================================================

\* the parts of the state a specification leaves in their initial state
StorageIdle ==
    /\ settings = [storage_backend |-> "local", s3_bucket_name |-> << >>]
    /\ storage = NoStorage
    /\ head_bucket_calls = 0
    /\ now = 0
    /\ store = {}
    /\ rewritten = {}
    /\ nsaves = 0

ExtIdle == JsonInit /\ LoopInit /\ UrlInit

\* the registry under concurrent callers
InitRegistry == RegistryInit /\ PipeInit /\ AudioInit /\ StorageIdle /\ YoutubeInit /\ ExtIdle

SpecRegistry == InitRegistry /\ [][RegistryNext]_vars

\* the registry as the worker finds it: left alone since import, or populated
\* by the discover_schemas call of the application's lifespan start-up
WorkerRegistryInit ==
    /\ discovered \in BOOLEAN
    /\ schemas = IF discovered THEN ScanAll(EmptyMap, 1) ELSE EmptyMap
    /\ rpc = [c \in Callers |-> "idle"]
    /\ rop = [c \in Callers |-> "discover_schemas"]
    /\ rkey = [c \in Callers |-> "recipes"]
    /\ ridx = [c \in Callers |-> 0]
    /\ rres = [c \in Callers |-> NoResult]
    /\ scan_count = 0
    /\ completed = None

\* one worker processing extraction requests
Init == WorkerRegistryInit /\ PipeInit /\ AudioInit /\ StorageIdle /\ YoutubeInit /\ ExtIdle

Spec == Init /\ [][PipeNext]_vars

\* direct calls of the audio acquisition
InitAudio == RegistryInit /\ PipeInit /\ AudioInit /\ StorageIdle /\ YoutubeInit /\ ExtIdle

SpecAudio == InitAudio /\ [][AudioNext]_vars

\* direct calls of ContentScraper.fetch_content
InitAcquire == RegistryInit /\ PipeInit /\ AudioInit /\ StorageIdle /\ YoutubeInit /\ ExtIdle

SpecAcquire == InitAcquire /\ [][AcquireNext]_vars

\* the storage factory and the saves of a FileManager while the clock runs
InitStorage == RegistryInit /\ PipeInit /\ AudioInit /\ StorageInit /\ YoutubeInit /\ ExtIdle

SpecStorage == InitStorage /\ [][StorageNext]_vars

\* direct calls of the video acquisition
InitYoutube == RegistryInit /\ PipeInit /\ AudioInit /\ StorageIdle /\ YoutubeInit /\ ExtIdle

SpecYoutube == InitYoutube /\ [][YoutubeNext]_vars

\* one worker processing the requests of the domain endpoints
InitEndpoints == WorkerRegistryInit /\ PipeInit /\ AudioInit /\ StorageIdle /\ YoutubeInit /\ ExtIdle

SpecEndpoints == InitEndpoints /\ [][EndpointNext]_vars

\* the requests of one worker on its event loop
InitLoop == RegistryInit /\ PipeInit /\ AudioInit /\ StorageIdle /\ YoutubeInit /\ ExtIdle

SpecLoop == InitLoop /\ [][LoopNext]_vars

\* direct calls of the URL acquisition
InitUrl == RegistryInit /\ PipeInit /\ AudioInit /\ StorageIdle /\ YoutubeInit /\ ExtIdle

SpecUrl == InitUrl /\ [][UrlNext]_vars

\* direct calls of save_json of a storage backend
InitJson == RegistryInit /\ PipeInit /\ AudioInit /\ StorageIdle /\ YoutubeInit /\ ExtIdle

SpecJson == InitJson /\ [][JsonNext]_vars

\* ========================================================================
\* Properties of the registry (checked under SpecRegistry)
\* ========================================================================

\* C7: when several callers invoke discover_schemas while the registry is
\* undiscovered, the scan-and-populate pass runs exactly once: no second
\* caller starts the population loop before the registry is reset.
C7_SinglePopulationPass == scan_count <= 1

\* C8: once a discovery has completed the registry map is never modified
\* again, and no get_schema call fails for a type that discovery registered,
\* whatever the other callers (reload_schemas included) are doing.
C8_ReadOnlyAfterDiscovery ==
    ~IsNone(completed) =>
        /\ schemas = completed[1]
        /\ \A c \in Callers :
              rres[c].kind \in {"ValueError", "KeyError"} => rres[c].key \notin DOMAIN completed[1]

\* C9: a call of discover_schemas that finds the registry already discovered
\* starts no scan and leaves the map and the discovered flag unchanged.
C9_RediscoverIsNoOp ==
    [][\A c \in Callers :
          (rpc[c] = "disc_check" /\ rpc'[c] # "disc_check" /\ discovered) =>
              /\ rpc'[c] # "disc_scan"
              /\ scan_count' = scan_count
              /\ schemas' = schemas
              /\ discovered' = discovered]_vars

C9_Witness ==
    \E c \in Callers :
        /\ rpc[c] = "idle"
        /\ rres[c].kind = "already_discovered"
        /\ discovered
        /\ DOMAIN schemas = {"recipes"}

\* C10: get_schema for a type that is not in the map never returns a schema:
\* it raises the unknown-type error, which carries the requested key and all
\* keys registered at that moment; a returned schema is the registered one.
C10_UnknownTypeFails ==
    [][\A c \in Callers :
          /\ (rpc[c] = "lookup_check" /\ rpc'[c] # "lookup_check" /\ rkey[c] \notin DOMAIN schemas)
                => rpc'[c] = "lookup_raise"
          /\ (rpc[c] = "lookup_raise" /\ rpc'[c] # "lookup_raise")
                => /\ rres'[c].kind = "ValueError"
                   /\ rres'[c].key = rkey[c]
                   /\ rres'[c].available = DOMAIN schemas
          /\ (rpc[c] = "lookup_return" /\ rpc'[c] # "lookup_return" /\ rres'[c].kind = "schema")
                => /\ rkey[c] \in DOMAIN schemas
                   /\ rres'[c].cls = schemas[rkey[c]]]_vars

C10_Witness ==
    \E c \in Callers :
        /\ rpc[c] = "idle"
        /\ rres[c].kind = "ValueError"
        /\ rres[c].key = "notes"
        /\ rres[c].available = {"recipes"}

\* ========================================================================
\* Properties of process_extraction (checked under Spec)
\* ========================================================================

\* C1: process_extraction always returns an ExtractionResult and lets no
\* exception escape: when acquisition, the engine or a save raised an error,
\* the result has success = false and error_message equal to its description.
C1_NoExceptionEscapes ==
    /\ ppc # "propagated"
    /\ ppc = "returned" => ~IsNone(result)
    /\ (ppc = "returned" /\ ~IsNone(exc)) =>
          /\ result[1].success = FALSE
          /\ result[1].error_message = Some(exc[1].msg)

C1_Witness ==
    /\ ppc = "returned"
    /\ ~IsNone(exc)
    /\ exc[1].type = "OSError"
    /\ result[1].success = FALSE
    /\ result[1].error_message = Some(<< "cannot write structured artifact" >>)

\* C2: in every returned ExtractionResult, extracted_data is non-null exactly
\* when success is true and error_message is non-null exactly when it is false.
C2_DataXorError ==
    ~IsNone(result) =>
        /\ ~IsNone(result[1].extracted_data) <=> result[1].success
        /\ ~IsNone(result[1].error_message) <=> ~result[1].success

C2_Witness ==
    /\ ppc = "returned"
    /\ ~IsNone(extracted_data)
    /\ result[1].success = FALSE
    /\ IsNone(result[1].extracted_data)
    /\ ~IsNone(result[1].error_message)

\* C3: in every returned result markdown_path is non-null iff the text save
\* was requested and a text artifact was written during the request, and
\* json_path is non-null iff the structured save was requested and written,
\* also when a later step of the request failed.
C3_LocatorsIffWritten ==
    ~IsNone(result) =>
        /\ ~IsNone(result[1].markdown_path)
              <=> (req.save_markdown /\ \E w \in written : w.kind = "markdown")
        /\ ~IsNone(result[1].json_path)
              <=> (req.save_json /\ \E w \in written : w.kind = "json")

\* C5: every file FileManager.save_json or save_markdown writes with the local
\* backend lies inside base_dir, whatever output_directory the request named.
C5_WritesInsideBaseDir == \A w \in written : InsideBaseDir(w.path)

\* C6: each of the five input modalities passes the validation of
\* ExtractionRequest and is dispatched to an acquisition branch of its own;
\* none is rejected as an unknown input type.
C6_AllModalitiesAccepted ==
    /\ (ppc = "rejected" /\ Strip(req.content) # << >>) => "input_type" \notin reject
    /\ ppc = "fetch" => FetchBranch(req.input_type) # "unsupported"

\* C11: when the registry lookup fails inside extract_structured_data, the
\* error that reaches process_extraction is the registry's own error, with
\* its list of known keys, and no completion call is made.
C11_LookupErrorPropagates ==
    (~IsNone(lookup) /\ ppc \in {"except", "returned"}) =>
        /\ exc = Some(RegistryException(lookup[1]))
        /\ \A i \in 1 .. Len(trace) : trace[i] # "completion"

\* C12: the engine is entered, and its completion call made, only after the
\* acquisition of the request (fetch, delivered text, text-artifact save) has
\* finished successfully; when acquisition failed the engine is never entered.
C12_ExtractionAfterAcquisition ==
    /\ \A i \in 1 .. Len(trace) :
          trace[i] = "extract_structured_data" => \E j \in 1 .. i - 1 : trace[j] = "acquired"
    /\ \A i \in 1 .. Len(trace) :
          trace[i] = "completion" =>
              /\ i > 1
              /\ trace[i - 1] \in {"extract_structured_data", "extract_from_image_directly"}
    /\ \A i, j \in 1 .. Len(trace) :
          (/\ trace[i] \in {"fetch_content", "external", "save_markdown", "acquired"}
           /\ trace[j] \in {"extract_structured_data", "completion"}) => i < j
    /\ (ppc \in {"except", "returned"} /\ ~IsNone(exc) /\ \A i \in 1 .. Len(trace) : trace[i] # "acquired")
          => \A i \in 1 .. Len(trace) : trace[i] # "extract_structured_data"

C12_Witness ==
    /\ ppc = "returned"
    /\ result[1].success
    /\ trace = << "fetch_content", "external", "save_markdown", "acquired",
                  "extract_structured_data", "completion" >>

\* C13: a request with input type image and extraction type recipes never
\* calls fetch_content, writes no text artifact and has a null markdown_path,
\* whatever save_markdown says; no other request takes the direct image path.
C13_DirectImagePath ==
    /\ (req.input_type = "image" /\ req.extraction_type = "recipes" /\ ppc \notin {"idle", "rejected"}) =>
          /\ \A i \in 1 .. Len(trace) : trace[i] \notin {"fetch_content", "save_markdown"}
          /\ \A w \in written : w.kind # "markdown"
          /\ IsNone(markdown_path)
          /\ ~IsNone(result) => IsNone(result[1].markdown_path)
    /\ (ppc = "direct" \/ \E i \in 1 .. Len(trace) : trace[i] = "extract_from_image_directly") =>
          (req.input_type = "image" /\ req.extraction_type = "recipes")

C13_Witness ==
    /\ ppc = "returned"
    /\ req.input_type = "image"
    /\ req.extraction_type = "recipes"
    /\ req.save_markdown
    /\ result[1].success
    /\ IsNone(result[1].markdown_path)
    /\ trace = << "extract_from_image_directly", "completion" >>

\* C14: a request whose content is empty or only whitespace is rejected when
\* the ExtractionRequest is constructed: nothing is called on its behalf.
C14_BlankContentRejected ==
    (ppc # "idle" /\ Strip(req.content) = << >>) =>
        /\ ppc = "rejected"
        /\ "content" \in reject
        /\ trace = << >>
        /\ written = {}

C14_Witness ==
    /\ ppc = "rejected"
    /\ req.input_type = "text"
    /\ req.content = << " " >>
    /\ reject = {"content"}
    /\ trace = << >>

\* C19: a text request for extraction type notes with save_json set, for
\* which neither the completion call nor a storage write fails, returns
\* success with extracted data and a non-null json_path.
C19_NotesEndToEnd ==
    (/\ ppc = "returned"
     /\ req.input_type = "text"
     /\ req.extraction_type = "notes"
     /\ req.save_json
     /\ (IsNone(exc) \/ exc[1].type \notin {"APIError", "OSError"})) =>
        /\ result[1].success
        /\ ~IsNone(result[1].extracted_data)
        /\ ~IsNone(result[1].json_path)

\* ========================================================================
\* Properties of fetch_content called directly (checked under SpecAcquire)
\* ========================================================================

\* C15: fetch_content called with empty content and input type text raises
\* an invalid-input error, and nothing has been written when it does.
C15_EmptyTextRejected ==
    (req.input_type = "text" /\ req.content = << >> /\ ppc \in {"fetch_save", "extract", "except"}) =>
        /\ ppc = "except"
        /\ exc[1].type = "ValueError"
        /\ written = {}

\* C16: for url, image, audio and video inputs a returned text is never
\* blank, and when the delivered page, vision response or transcript is
\* blank the call raises the no-content error and writes no text artifact.
C16_NoBlankAcquisition ==
    /\ (ppc = "extract" /\ req.input_type # "text") =>
          /\ Strip(content) # << >>
          /\ content = Strip(content)
    /\ (/\ req.input_type \in {"url", "image", "audio", "youtube_url"}
        /\ \E i \in 1 .. Len(trace) : trace[i] = "external"
        /\ Strip(raw) = << >>) =>
          /\ ppc = "except"
          /\ exc[1].type = "ValueError"
          /\ exc[1].msg \in {<< "No content extracted from URL" >>,
                              << "No content extracted from image" >>,
                              << "No content extracted from audio" >>,
                              << "No transcript available for this video" >>}
          /\ written = {}

C16_Witness ==
    /\ ppc = "except"
    /\ req.input_type = "url"
    /\ req.save_markdown
    /\ raw = << " " >>
    /\ exc[1].msg = << "No content extracted from URL" >>
    /\ written = {}

\* ========================================================================
\* Properties of the storage layer (checked under SpecStorage)
\* ========================================================================

\* C17: a locator that has been written is never written again by a later
\* save, whatever content, prefix and extraction type that save has.
C17_NeverOverwritten == rewritten = {}

\* C18: create_storage fails whenever the backend name it selects (the
\* override when one is given, else the configured name) is neither local nor
\* s3, and when s3 is selected with an empty bucket name it fails without an
\* S3Storage having been constructed: no head_bucket request is sent.
C18_FactoryFailures ==
    storage.kind # "none" =>
        LET name == IF IsNone(storage.requested) \/ storage.requested[1] = ""
                      THEN settings.storage_backend
                      ELSE storage.requested[1]
        IN  /\ name \notin {"local", "s3"} =>
                  /\ storage.kind = "error"
                  /\ storage.error = "Unsupported storage backend"
                  /\ head_bucket_calls = 0
            /\ (name = "s3" /\ settings.s3_bucket_name = << >>) =>
                  /\ storage.kind = "error"
                  /\ storage.error = "S3 bucket name is required when using S3 storage"
                  /\ head_bucket_calls = 0

C18_Witness ==
    /\ storage.kind = "error"
    /\ storage.requested = Some("s3")
    /\ settings = [storage_backend |-> "local", s3_bucket_name |-> << >>]
    /\ head_bucket_calls = 0

\* ========================================================================
\* Properties of the video acquisition (checked under SpecYoutube)
\* ========================================================================

\* C20: for a URL made of plain text, one of the three shape literals and an
\* identifier, _extract_youtube_id returns the identifier: the text after the
\* literal up to, and excluding, the first "&", "?" or "#".  A URL containing
\* none of the literals has no identifier, and a URL without identifier makes
\* _process_youtube raise "Invalid YouTube URL" before any transcript fetch.
C20_YoutubeId ==
    ypc \in {"transcript", "returned", "raised"} =>
        /\ \A lit \in {<< "youtu.be/" >>, << "youtube.com/watch", "?", "v=" >>, << "youtube.com/embed/" >>} :
             \A p \in 1 .. Len(youtube_url) :
                LET a == p + Len(lit) IN
                  (/\ \A j \in 1 .. p - 1 : youtube_url[j] = "A"
                   /\ a <= Len(youtube_url)
                   /\ SubSeq(youtube_url, p, a - 1) = lit
                   /\ youtube_url[a] \notin {"&", "?", "#"}) =>
                      \E b \in a .. Len(youtube_url) :
                          /\ video_id = Some(SubSeq(youtube_url, a, b))
                          /\ \A k \in a .. b : youtube_url[k] \notin {"&", "?", "#"}
                          /\ (b = Len(youtube_url) \/ youtube_url[b + 1] \in {"&", "?", "#"})
        /\ ~IsNone(video_id) =>
             /\ video_id[1] # << >>
             /\ \A k \in 1 .. Len(video_id[1]) : video_id[1][k] \notin {"&", "?", "#"}
        /\ (\A i \in 1 .. Len(youtube_url) :
                /\ youtube_url[i] \notin {"youtu.be/", "youtube.com/embed/"}
                /\ ~(youtube_url[i] = "youtube.com/watch" /\ i < Len(youtube_url) /\ youtube_url[i + 1] = "?"))
             => IsNone(video_id)
        /\ IsNone(video_id) =>
             /\ ypc = "raised"
             /\ youtube_out.msg = << "ValueError", "Invalid YouTube URL" >>
             /\ transcript_calls = 0

C20_Witness ==
    /\ ypc = "transcript"
    /\ youtube_url = << "youtube.com/watch", "?", "v=", "A", "&" >>
    /\ video_id = Some(<< "A" >>)

\* ========================================================================
\* Properties of the audio acquisition (checked under SpecAudio)
\* ========================================================================

\* C4: for a base64 or data-URI payload exactly one temporary file is created,
\* and when _process_audio_with_whisper has returned or raised, that file no
\* longer exists.
C4_TempFileRemoved ==
    (apc \in {"returned", "raised"} /\ ~audio_input.isfile /\ audio_input.b64ok) =>
        /\ Cardinality(temps) = 1
        /\ temps \cap files = {}

\* C29: when the audio input is an existing local file, the acquirer never
\* deletes it, on any exit path; the only files it deletes are temporary
\* files it created during the same call.
C29_InputFileKept ==
    apc # "idle" =>
        /\ InputPath \notin temps
        /\ audio_input.isfile => (InputPath \in files /\ temps = {})
        /\ files \subseteq {InputPath} \cup temps

\* a call on a local file that returned its transcript, the file still there
C29_Witness ==
    /\ apc = "returned"
    /\ audio_input.isfile
    /\ audio_file_path = Some(InputPath)
    /\ InputPath \in files

\* C21: save_json of either backend, given caller metadata, stores a metadata
\* map in which every key of the data's own metadata that the caller did not
\* set keeps its value and every caller-set key has the caller's value; with
\* no caller metadata the stored payload equals the input data; in both cases
\* the caller's data dictionary is unchanged.
C21_MetadataMerge ==
    /\ jpc # "idle" => json_data = json_data_in
    /\ ~IsNone(dumped) =>
          LET stored == DictGet(dumped[1], "metadata", EmptyDict)
              own == DictGet(json_data_in, "metadata", EmptyDict)
          IN IF IsNone(json_metadata)
             THEN dumped[1] = json_data_in
             ELSE /\ \A k \in (DOMAIN own) \ (DOMAIN json_metadata[1]) :
                       k \in DOMAIN stored /\ stored[k] = own[k]
                  /\ \A k \in DOMAIN json_metadata[1] :
                       k \in DOMAIN stored /\ stored[k] = json_metadata[1][k]

\* a payload stored with a caller key overriding a key of the data's own
\* metadata while another of its keys is kept
C21_Witness ==
    /\ jpc = "returned"
    /\ ~IsNone(dumped)
    /\ ~IsNone(json_metadata)
    /\ "metadata" \in DOMAIN json_data_in
    /\ \E k \in DOMAIN json_metadata[1] :
          k \in DOMAIN json_data_in["metadata"] /\ json_data_in["metadata"][k] # json_metadata[1][k]
    /\ \E k \in DOMAIN json_data_in["metadata"] : k \notin DOMAIN json_metadata[1]

\* C22: a request whose extraction type is unknown ends in an outcome that
\* differs from the result of every other failure in more than the text of
\* its message: it is not folded into the generic success=false result.
C22_UnknownTypeDistinct ==
    (ppc = "returned" /\ UnknownTypeRaised) =>
        [result[1] EXCEPT !.error_message = None]
            # [success |-> FALSE, extraction_type |-> req.extraction_type,
               extracted_data |-> None, markdown_path |-> None, json_path |-> None,
               error_message |-> None]

\* C24: when the completion call, or the parsing of its output against the
\* contract, fails, extract_structured_data returns no data and raises an
\* extraction-failed error (OpenAIExtractionError) that carries the
\* extraction type.
C24_ExtractionFailedError ==
    (/\ ppc = "except"
     /\ Len(trace) > 1
     /\ trace[Len(trace)] = "completion"
     /\ trace[Len(trace) - 1] = "extract_structured_data"
     /\ exc[1].msg # << "cannot write structured artifact" >>) =>
        /\ IsNone(extracted_data)
        /\ exc[1].type = "OpenAIExtractionError"
        /\ \E i \in 1 .. Len(exc[1].msg) : exc[1].msg[i] = req.extraction_type

\* C25: one invocation of extract_structured_data or
\* extract_from_image_directly issues at most one completion call, also when
\* the call fails; a request invokes the engine at most once.
C25_SingleCompletion ==
    LET invocations == {i \in 1 .. Len(trace) :
                          trace[i] \in {"extract_structured_data", "extract_from_image_directly"}}
        calls == {i \in 1 .. Len(trace) : trace[i] = "completion"}
    IN /\ Cardinality(invocations) <= 1
       /\ Cardinality(calls) <= Cardinality(invocations)

\* a failed completion call that was made once and not repeated
C25_Witness ==
    /\ ppc = "returned"
    /\ ~IsNone(exc)
    /\ exc[1].type = "APIError"
    /\ Cardinality({i \in 1 .. Len(trace) : trace[i] = "completion"}) = 1

\* C26: a structured artifact is written only after the engine has returned
\* data, at most one is written per request, and a request whose acquisition
\* or extraction failed writes none.
C26_StructuredAfterExtraction ==
    LET json == {w \in written : w.kind = "json"}
        saves == {i \in 1 .. Len(trace) : trace[i] = "save_json"}
    IN /\ Cardinality(json) <= 1
       /\ Cardinality(saves) <= 1
       /\ json # {} =>
             /\ ~IsNone(extracted_data)
             /\ \E i \in saves : \E j \in 1 .. i - 1 : trace[j] = "completion"
       /\ (ppc \in {"except", "returned", "propagated"} /\ IsNone(extracted_data)) => json = {}

\* a successful request that wrote its structured artifact
C26_Witness ==
    /\ ppc = "returned"
    /\ result[1].success
    /\ \E w \in written : w.kind = "json"
    /\ ~IsNone(extracted_data)

\* C28: when a request writes both a text artifact and a structured
\* artifact, both carry the same content hash, the hash of the text that
\* acquisition returned.
C28_SameContentHash ==
    \A t, j \in written :
        (t.kind = "markdown" /\ j.kind = "json") =>
            /\ t.content_hash = j.content_hash
            /\ j.content_hash = ContentHash(content)

\* C30: every extraction type a domain endpoint assigns resolves to a schema
\* at extraction time: no request of a domain endpoint ends with the
\* unknown-extraction-type error.
C30_ForcedTypesResolve == ~UnknownTypeRaised

\* C23: while a request waits on a long-latency external call (completion,
\* vision call, transcript fetch, browser), it does not hold the worker's
\* event loop, so another request of the same worker can make progress.
C23_SlowRequestDoesNotStall ==
    \A t \in Tasks : waiting[t] # "none" => running # Some(t)

\* C27: every URL acquisition that launched a browser has closed it when
\* _process_url_async returns or raises, on every exit path.
C27_BrowserClosed ==
    (upc \in {"returned", "raised"} /\ browser # "none") => browser = "closed"

====
